---- MODULE Spec2Model ----
(***************************************************************************)
(* Model of the Ren'Py translation reconciliation of scripts/rptl.py.      *)
(*                                                                         *)
(* A text (a Python str) is a sequence of one-character strings.  The      *)
(* regular expressions, str.replace, str.strip, str.startswith and         *)
(* re.sub of the source are modelled by what they compute on such          *)
(* sequences.                                                              *)
(***************************************************************************)
EXTENDS Integers, Sequences, FiniteSets, TLC

(***************************************************************************)
(* Characters and the classes the regular expressions use.                 *)
(***************************************************************************)
QUOTE == "\""
NL == "\n"
BSLASH == "\\"

\* \s of the re module, restricted to the whitespace the model's texts hold
IsSpace(c) == c \in {" ", "\n"}

WordChars ==
    {"a", "b", "c", "d", "e", "f", "g", "h", "i", "j", "k", "l", "m",
     "n", "o", "p", "q", "r", "s", "t", "u", "v", "w", "x", "y", "z",
     "A", "B", "C", "D", "E", "F", "G", "H", "I", "J", "K", "L", "M",
     "N", "O", "P", "Q", "R", "S", "T", "U", "V", "W", "X", "Y", "Z",
     "0", "1", "2", "3", "4", "5", "6", "7", "8", "9", "_"}

\* [\w_] of the re module, on ASCII text
IsWord(c) == c \in WordChars

Max(S) == CHOOSE x \in S : \A y \in S : y <= x

Min(S) == CHOOSE x \in S : \A y \in S : x <= y

\* s[i:] of Python, i counted from 1
From(s, i) == SubSeq(s, i, Len(s))

\* whether the literal lit stands in s at position i
LitAt(s, i, lit) ==
    /\ i >= 1
    /\ i + Len(lit) - 1 <= Len(s)
    /\ \A k \in 1..Len(lit) : s[i + k - 1] = lit[k]

\* str.startswith
StartsWith(s, p) == LitAt(s, 1, p)

\* str.find from position i (counted from 1); 0 when sub does not occur
Find(s, sub, i) ==
    LET hits == {k \in i..(Len(s) - Len(sub) + 1) : LitAt(s, k, sub)}
    IN  IF hits = {} THEN 0 ELSE Min(hits)

\* str.replace(old, new) for a non-empty old: every occurrence, left to
\* right, not overlapping
RECURSIVE ReplaceFrom(_, _, _, _)
ReplaceFrom(s, old, new, i) ==
    LET k == Find(s, old, i)
    IN  IF k = 0
        THEN From(s, i)
        ELSE SubSeq(s, i, k - 1) \o new \o ReplaceFrom(s, old, new, k + Len(old))

\* str.replace(old, new, 1): the first occurrence alone
Replace_First(s, old, new) ==
    LET k == Find(s, old, 1)
    IN  IF k = 0 THEN s ELSE SubSeq(s, 1, k - 1) \o new \o From(s, k + Len(old))

Replace(s, old, new) == ReplaceFrom(s, old, new, 1)

\* str.strip(chars): the characters of the set cs removed from both ends
Strip(s, cs) ==
    LET keep == {k \in 1..Len(s) : s[k] \notin cs}
    IN  IF keep = {} THEN <<>> ELSE SubSeq(s, Min(keep), Max(keep))

\* str.strip() with no argument
StripSpace(s) == Strip(s, {" ", "\n"})

\* first position at or after i that holds no whitespace (Len(s)+1 if none)
SkipSpace(s, i) ==
    LET stop == {k \in i..Len(s) : ~IsSpace(s[k])}
    IN  IF stop = {} THEN Len(s) + 1 ELSE Min(stop)

\* first position at or after i that holds no word character
SkipWord(s, i) ==
    LET stop == {k \in i..Len(s) : ~IsWord(s[k])}
    IN  IF stop = {} THEN Len(s) + 1 ELSE Min(stop)

\* position of the newline that ends the line holding position i (Len(s)+1
\* if the line is the last and has none): '.' does not match a newline
LineEnd(s, i) ==
    LET stop == {k \in i..Len(s) : s[k] = NL}
    IN  IF stop = {} THEN Len(s) + 1 ELSE Min(stop)

(***************************************************************************)
(* PERCENT = re.compile(r'(?<!%)(%)(?!%)') and PERCENT.sub(r'%%', dst)     *)
(***************************************************************************)
\* PERCENT without its lookbehind: a percent with no percent after it
PERCENT_NoLookbehind(s, i) ==
    /\ s[i] = "%"
    /\ (i < Len(s) => s[i + 1] # "%")

\* the pattern matches at position i: a percent with no percent before or
\* after it
PERCENT(s, i) ==
    /\ s[i] = "%"
    /\ (i > 1 => s[i - 1] # "%")
    /\ (i < Len(s) => s[i + 1] # "%")

RECURSIVE PercentSubFrom(_, _)
PercentSubFrom(s, i) ==
    IF i > Len(s)
    THEN <<>>
    ELSE (IF PERCENT(s, i) THEN <<"%", "%">> ELSE <<s[i]>>)
         \o PercentSubFrom(s, i + 1)

PercentSub(s) == PercentSubFrom(s, 1)

(***************************************************************************)
(* Pattern.translation: the two regular expressions, matched as the re     *)
(* module matches them (greedy '.*' within a line, greedy '\s+', the       *)
(* back-reference to the speaker's name), and Pattern.iter_tl.             *)
(***************************************************************************)
NoMatch == [start |-> 0]

\* the literal that follows (\s+) in the first pattern:  new "
NewLit == <<"n", "e", "w", " ", QUOTE>>

\* the literal that opens the first pattern:  old "
OldLit == <<"o", "l", "d", " ", QUOTE>>

\* the positions of a double quote on the line that starts at position i
QuotesOnLine(s, i) == {q \in i..(LineEnd(s, i) - 1) : s[q] = QUOTE}

\* "(\s+)<lit>(?P<dst>.*)\"" after the quote at q1 that closes src: the last
\* positions k of (\s+) from which the rest of the pattern matches
TailStops(s, q1, lit) ==
    {k \in (q1 + 1)..(SkipSpace(s, q1 + 1) - 1) :
        /\ LitAt(s, k + 1, lit)
        /\ QuotesOnLine(s, k + 1 + Len(lit)) # {}}

\* the match that starts at position i, src starting at s0 and lit following
\* (\s+); the greedy '.*' of src gives way from the right
MatchFrom(s, i, s0, lit) ==
    LET closes == {q \in QuotesOnLine(s, s0) : TailStops(s, q, lit) # {}}
    IN  IF closes = {}
        THEN NoMatch
        ELSE LET q1 == Max(closes)
                 k  == Max(TailStops(s, q1, lit))
                 d0 == k + 1 + Len(lit)
                 q2 == Max(QuotesOnLine(s, d0))
             IN  [start |-> i,
                  end   |-> q2,
                  head  |-> SubSeq(s, i, d0 - 2),
                  src   |-> SubSeq(s, s0, q1 - 1),
                  dst   |-> SubSeq(s, d0, q2 - 1)]

\* r'(?P<head>old \"(?P<src>.*)\"(\s+)new )\"(?P<dst>.*)\"' at position i
MatchOldNew(s, i) ==
    IF LitAt(s, i, OldLit) THEN MatchFrom(s, i, i + Len(OldLit), NewLit) ELSE NoMatch

\* r'(?P<head># (?P<char>[\w_]*)\s*\"(?P<src>.*)\"(\s+)(?P=char) )\"(?P<dst>.*)\"'
\* at position i
MatchSpeaker(s, i) ==
    IF ~LitAt(s, i, <<"#", " ">>)
    THEN NoMatch
    ELSE LET c1 == SkipWord(s, i + 2)
             qs == SkipSpace(s, c1)
             char == SubSeq(s, i + 2, c1 - 1)
         IN  IF qs <= Len(s) /\ s[qs] = QUOTE
             THEN MatchFrom(s, i, qs + 1, char \o <<" ", QUOTE>>)
             ELSE NoMatch

MatchAt(p, s, i) == IF p = 1 THEN MatchOldNew(s, i) ELSE MatchSpeaker(s, i)

\* re.finditer: the matches of pattern p in s from position i on, left to
\* right, not overlapping
RECURSIVE FindIter(_, _, _)
FindIter(p, s, i) ==
    LET found == {MatchAt(p, s, k) : k \in i..Len(s)} \ {NoMatch}
    IN  IF found = {}
        THEN <<>>
        ELSE LET m == CHOOSE x \in found : \A y \in found : x.start <= y.start
             IN  <<m>> \o FindIter(p, s, m.end + 1)

\* TranslationMatch without __post_init__: dst as the file has it
TranslationMatch_NoPostInit(s, m) ==
    [match |-> m,
     full  |-> SubSeq(s, m.start, m.end),
     head  |-> m.head,
     src   |-> m.src,
     dst   |-> m.dst]

\* TranslationMatch(match, *match.group(0, 'head', 'src', 'dst')) followed by
\* __post_init__: dst has its lone percents doubled
TranslationMatch(s, m) ==
    [match |-> m,
     full  |-> SubSeq(s, m.start, m.end),
     head  |-> m.head,
     src   |-> m.src,
     dst   |-> PercentSub(m.dst)]

\* Pattern.iter_tl: the matches of the first pattern, then those of the second
iter_tl(text) ==
    LET ms == FindIter(1, text, 1) \o FindIter(2, text, 1)
    IN  [k \in 1..Len(ms) |-> TranslationMatch(text, ms[k])]

(***************************************************************************)
(* Configuration: PRESERVE_FILES, PRESERVE_WORDS (the defaults of          *)
(* Preserve.files and Preserve.words).                                     *)
(***************************************************************************)
PRESERVE_FILES == {"gui", "screens"}

PRESERVE_WORDS ==
    {<<"A", "b", "o", "u", "t">>,
     <<"A", "f", "t", "e", "r", " ", "C", "h", "o", "i", "c", "e", "s">>,
     <<"A", "u", "t", "o">>,
     <<"B", "a", "c", "k">>,
     <<"D", "i", "s", "a", "b", "l", "e">>,
     <<"D", "i", "s", "p", "l", "a", "y">>,
     <<"E", "n", "t", "e", "r">>,
     <<"E", "s", "c", "a", "p", "e">>,
     <<"F", "u", "l", "l", "s", "c", "r", "e", "e", "n">>,
     <<"H", "e", "l", "p">>,
     <<"H", "i", "s", "t", "o", "r", "y">>,
     <<"L", "o", "a", "d">>,
     <<"M", "a", "i", "n", " ", "M", "e", "n", "u">>,
     <<"M", "e", "n", "u">>,
     <<"N", "o">>,
     <<"P", "r", "e", "f", "e", "r", "e", "n", "c", "e">>,
     <<"P", "r", "e", "f", "e", "r", "e", "n", "c", "e", "s">>,
     <<"P", "r", "e", "f", "s">>,
     <<"Q", ".", "L", "o", "a", "d">>,
     <<"Q", ".", "S", "a", "v", "e">>,
     <<"Q", "u", "i", "t">>,
     <<"R", "e", "t", "u", "r", "n">>,
     <<"R", "o", "l", "l", "b", "a", "c", "k", " ", "S", "i", "d", "e">>,
     <<"S", "a", "v", "e">>,
     <<"S", "k", "i", "p">>,
     <<"S", "p", "a", "c", "e">>,
     <<"S", "t", "a", "r", "t">>,
     <<"T", "a", "b">>,
     <<"T", "r", "a", "n", "s", "i", "t", "i", "o", "n", "s">>,
     <<"U", "n", "s", "e", "e", "n", " ", "T", "e", "x", "t">>,
     <<"W", "i", "n", "d", "o", "w">>,
     <<"Y", "e", "s">>}

(***************************************************************************)
(* State.                                                                  *)
(***************************************************************************)
VARIABLES
    conf,        \* Config: language, batch_size, linebreak_threshold, dev_mode
    paths,       \* Paths: backup (<<>> for None), script (whether one is set)
    characters,  \* the cache of the property 'characters': <<>> until the
                 \* first access, then <<the roster>>
    script,      \* the script file: <<>> when absent, else <<the names it
                 \* declares with Character("...")>>
    files,       \* the *.rpy files under tl/<language>: stem -> content
    rpyc,        \* the stems that have a compiled .rpyc sibling
    archives,    \* the archives under tl: file name -> the files archived
    dev,         \* the developer-mode file: <<>> when absent, else <<content>>
    pc,          \* where the call in progress stands
    remaining,   \* the paths the loop of __call__ has yet to visit
    calls,       \* how many times __call__ was entered
    written,     \* the stems __call__ has written since it was entered
    before,      \* files, as they were when __call__ was entered
    text,        \* the text given to the call of _rpy or rpy in progress
    path,        \* the stem of the file the text belongs to
    tl,          \* the matches Pattern.iter_tl yields on text
    result,      \* what the call of _rpy or rpy returned
    returned,    \* what rpy returned, by batch_size, for the file at hand
    pending,     \* the matches the loop of _rpy has yet to take
    bc,          \* BatchConfig: batch, prefix and the three prefixes
    resizer_type,\* the resizer resize is given: "MogrifyResizer", "ConvertResizer"
    tree,        \* the directories under src: name -> the kinds of files in it
    entered,     \* tree, as it was when resize was entered
    subdirs,     \* the directories the loop of resize has yet to visit
    outcome      \* how _resize_dir ended, by directory visited

\* the variables of resize (scripts/images/resize.py)
resizeVars == <<bc, resizer_type, tree, entered, subdirs, outcome>>

vars == <<conf, paths, characters, script, files, rpyc, archives, dev, pc,
          remaining, calls, written, before, text, path, tl, result, returned,
          pending, resizeVars>>

\* the variables of the file system and of __call__
runVars == <<paths, script, files, rpyc, archives, dev, remaining, calls,
             written, before>>

(***************************************************************************)
(* RenpyTranslation._edit_side_by_side, _edit, _rpy.  A call returns None  *)
(* or a str.                                                               *)
(***************************************************************************)
None == [none |-> TRUE, str |-> <<>>]

Str(s) == [none |-> FALSE, str |-> s]

\* the truth value Python gives an 'str | None'
Truthy(r) == ~r.none /\ r.str # <<>>

Quoted(s) == <<QUOTE>> \o s \o <<QUOTE>>

\* the bracket test with the two brackets the wrong way round
Bracketed_Swapped(src) == Len(src) >= 2 /\ src[1] = "]" /\ src[Len(src)] = "["

\* re.match(r'^\[.*\]$', src)
Bracketed(src) == Len(src) >= 2 /\ src[1] = "[" /\ src[Len(src)] = "]"

\* the normalisation that forgets '{w}'
StripTokens_KeepWait(src) == Replace(src, <<"{", "p", "}">>, <<" ", "/", " ">>)

\* m.src.replace('{w}', '').replace('{p}', ' / ')
StripTokens(src) ==
    Replace(Replace(src, <<"{", "w", "}">>, <<>>), <<"{", "p", "}">>, <<" ", "/", " ">>)

\* _edit_side_by_side with '<' for '<=' in the test of the length
_edit_side_by_side_Strict(self, t, m) ==
    IF Strip(m.src, {"[", "]"}) \in self.characters
    THEN IF Len(m.src) >= 2 /\ m.src[1] = "[" /\ m.src[Len(m.src)] = "]"
         THEN Str(Replace(t, m.full, m.head \o Quoted(m.src)))
         ELSE Str(Replace(t, m.full,
                          m.head \o Quoted(m.src \o <<" ", "(">> \o m.dst \o <<")">>)))
    ELSE IF Len(m.src) < self.conf.linebreak_threshold
    THEN Str(Replace(t, m.full,
                     m.head \o Quoted(m.src \o <<" ", " ", "|", " ", " ">> \o m.dst)))
    ELSE IF ~StartsWith(m.dst, Replace(Replace(m.src, <<"{", "w", "}">>, <<>>),
                                       <<"{", "p", "}">>, <<" ", "/", " ">>))
    THEN Str(Replace(t, m.full,
                     m.head \o Quoted(Replace(Replace(m.src, <<"{", "w", "}">>, <<>>),
                                              <<"{", "p", "}">>, <<" ", "/", " ">>)
                                      \o <<BSLASH, "n">> \o m.dst)))
    ELSE None

\* _edit_side_by_side with the test of the length ahead of the test of the
\* character name
_edit_side_by_side_LengthFirst(self, t, m) ==
    IF Len(m.src) <= self.conf.linebreak_threshold
    THEN Str(Replace(t, m.full,
                     m.head \o Quoted(m.src \o <<" ", " ", "|", " ", " ">> \o m.dst)))
    ELSE IF Strip(m.src, {"[", "]"}) \in self.characters
    THEN IF Len(m.src) >= 2 /\ m.src[1] = "[" /\ m.src[Len(m.src)] = "]"
         THEN Str(Replace(t, m.full, m.head \o Quoted(m.src)))
         ELSE Str(Replace(t, m.full,
                          m.head \o Quoted(m.src \o <<" ", "(">> \o m.dst \o <<")">>)))
    ELSE IF ~StartsWith(m.dst, Replace(Replace(m.src, <<"{", "w", "}">>, <<>>),
                                       <<"{", "p", "}">>, <<" ", "/", " ">>))
    THEN Str(Replace(t, m.full,
                     m.head \o Quoted(Replace(Replace(m.src, <<"{", "w", "}">>, <<>>),
                                              <<"{", "p", "}">>, <<" ", "/", " ">>)
                                      \o <<BSLASH, "n">> \o m.dst)))
    ELSE None

\* _edit_side_by_side with a newline for the escape '\\n'
_edit_side_by_side_RawNewline(self, t, m) ==
    IF Strip(m.src, {"[", "]"}) \in self.characters
    THEN IF Bracketed(m.src)
         THEN Str(Replace(t, m.full, m.head \o Quoted(m.src)))
         ELSE Str(Replace(t, m.full,
                          m.head \o Quoted(m.src \o <<" ", "(">> \o m.dst \o <<")">>)))
    ELSE IF Len(m.src) <= self.conf.linebreak_threshold
    THEN Str(Replace(t, m.full,
                     m.head \o Quoted(m.src \o <<" ", " ", "|", " ", " ">> \o m.dst)))
    ELSE IF ~StartsWith(m.dst, StripTokens(m.src))
    THEN Str(Replace(t, m.full,
                     m.head \o Quoted(StripTokens(m.src) \o <<NL>> \o m.dst)))
    ELSE None

_edit_side_by_side(self, t, m) ==
    IF Strip(m.src, {"[", "]"}) \in self.characters
    THEN IF Bracketed(m.src)
         THEN Str(Replace(t, m.full, m.head \o Quoted(m.src)))
         ELSE Str(Replace(t, m.full,
                          m.head \o Quoted(m.src \o <<" ", "(">> \o m.dst \o <<")">>)))
    ELSE IF Len(m.src) <= self.conf.linebreak_threshold
    THEN Str(Replace(t, m.full,
                     m.head \o Quoted(m.src \o <<" ", " ", "|", " ", " ">> \o m.dst)))
    ELSE LET src == StripTokens(m.src)
         IN  IF ~StartsWith(m.dst, src)
             THEN Str(Replace(t, m.full,
                              m.head \o Quoted(src \o <<BSLASH, "n">> \o m.dst)))
             ELSE None

\* the first condition of _edit: the entry is left as it is
NoOp(m) ==
    \/ StartsWith(m.dst, m.src)
    \/ /\ StartsWith(m.src, <<"o", "l", "d", ":">>)
       /\ StartsWith(m.dst, <<"n", "e", "w", ":">>)

\* the second condition of _edit without the test of the file
KeepSource_WordsOnly(m, preserve) ==
    Strip(StripSpace(m.src), {"."}) \in PRESERVE_WORDS

\* str.rstrip(chars): the characters of the set cs removed from the end
RStrip(s, cs) ==
    LET keep == {k \in 1..Len(s) : s[k] \notin cs}
    IN  IF keep = {} THEN <<>> ELSE SubSeq(s, 1, Max(keep))

\* the second condition of _edit with rstrip('.') for strip('.')
KeepSource_Trailing(m, preserve) ==
    preserve \/ RStrip(StripSpace(m.src), {"."}) \in PRESERVE_WORDS

\* the second condition of _edit: the source alone is kept
KeepSource(m, preserve) ==
    preserve \/ Strip(StripSpace(m.src), {"."}) \in PRESERVE_WORDS

_edit(self, t, m, preserve) ==
    IF NoOp(m)
    THEN None
    ELSE IF KeepSource(m, preserve)
    THEN Str(Replace(t, m.full, m.head \o Quoted(m.src)))
    ELSE _edit_side_by_side(self, t, m)

\* the loop of _rpy over the matches ms from the k-th on; the matches were
\* found on the text the call was given, the replacements act on t
RECURSIVE RpyLoop(_, _, _, _, _)
RpyLoop(self, ms, k, t, preserve) ==
    IF k > Len(ms)
    THEN t
    ELSE LET r == _edit(self, t, ms[k], preserve)
         IN  RpyLoop(self, ms, k + 1, IF Truthy(r) THEN r.str ELSE t, preserve)

_rpy(self, t, preserve) == RpyLoop(self, iter_tl(t), 1, t, preserve)

(***************************************************************************)
(* RpyReader and RenpyTranslation.rpy                                      *)
(***************************************************************************)
\* the lines of a text file, each with its newline
RECURSIVE Lines(_)
Lines(s) ==
    IF s = <<>>
    THEN <<>>
    ELSE LET e == LineEnd(s, 1)
         IN  IF e > Len(s) THEN <<s>> ELSE <<SubSeq(s, 1, e)>> \o Lines(From(s, e + 1))

RECURSIVE Join(_)
Join(ss) == IF ss = <<>> THEN <<>> ELSE Head(ss) \o Join(Tail(ss))

\* RpyReader.iter_chunk: the blocks of lines, a block closed by its blank line,
\* and the lines left at the end of the file yielded last
RECURSIVE ChunkLoop(_, _)
ChunkLoop(ls, lines) ==
    IF ls = <<>>
    THEN <<lines>>
    ELSE LET ln == Append(lines, Head(ls))
         IN  IF StripSpace(Head(ls)) = <<>>
             THEN <<ln>> \o ChunkLoop(Tail(ls), <<>>)
             ELSE ChunkLoop(Tail(ls), ln)

\* iter_chunk without the yield that follows the loop
iter_chunk_NoLast(s) ==
    SubSeq(ChunkLoop(Lines(s), <<>>), 1, Len(ChunkLoop(Lines(s), <<>>)) - 1)

iter_chunk(s) == ChunkLoop(Lines(s), <<>>)

\* itertools.batched(blocks, n), each batch joined to one str
RECURSIVE Batched(_, _)
Batched(blocks, n) ==
    IF blocks = <<>>
    THEN <<>>
    ELSE LET k == IF Len(blocks) < n THEN Len(blocks) ELSE n
         IN  <<Join([b \in 1..k |-> Join(blocks[b])])>>
             \o Batched(SubSeq(blocks, k + 1, Len(blocks)), n)

\* RpyReader(path, n).__iter__
RpyReader(s, n) == Batched(iter_chunk(s), n)

\* RenpyTranslation.rpy on the file of stem p and content s, with
\* n = self.conf.batch_size
rpy(self, p, s) ==
    LET reader == RpyReader(s, self.conf.batch_size)
    IN  Join([k \in 1..Len(reader) |->
                 _rpy(self, reader[k], p \in PRESERVE_FILES)])

(***************************************************************************)
(* Inputs: the texts of translation entries.                               *)
(***************************************************************************)
\* the largest linebreak_threshold the configurations draw
MaxThreshold == 3

\* the source strings of the entries
SrcPool ==
    {<<>>,
     <<"a">>,
     <<"a", "%">>,
     <<"a", "%", "b">>,
     <<"c">>,
     <<"[", "c">>,
     <<"[", "c", "]">>,
     <<"N", "o">>,
     <<"N", "o", ".">>,
     <<".", "N", "o">>,
     <<" ", "N", "o", ".", " ">>,
     <<"a", "b", "c", "d">>,
     <<"o", "l", "d", ":", "a">>,
     <<"a", "{", "p", "}", "b", "{", "w", "}">>,
     <<"{", "{", "w", "}", "p", "}", "a">>}

\* the translated strings of the entries
DstPool ==
    {<<"b">>,
     <<"%", "b">>,
     <<"b", "%", "%">>,
     <<"%", "%", "b", "%">>,
     <<"c", "%", "%", "%">>,
     <<"n", "e", "w", ":", "b">>,
     <<"a", "%", "b", "X">>,
     <<"a", " ", "/", " ", "b", BSLASH, "n", "b">>}

\* the translated strings an entry of source src may carry: those of the
\* pool, and src itself followed by more text (an entry merged before)
DstFor(src) == DstPool \cup {src \o <<" ", "b">>}

\* the rosters of speakers the script may declare
Rosters == {{}, {<<"c">>}, {<<"c">>, <<"N", "o">>}}

\* the shapes of an entry:  old "S" / new "D",  # e "S" / e "D",  # "S" / "D"
Shapes == {"old", "say", "narration"}

Entry(shape, src, dst) ==
    CASE shape = "old" ->
            <<"o", "l", "d", " ">> \o Quoted(src) \o <<NL, "n", "e", "w", " ">>
            \o Quoted(dst) \o <<NL>>
      [] shape = "say" ->
            <<"#", " ", "e", " ">> \o Quoted(src) \o <<NL, "e", " ">>
            \o Quoted(dst) \o <<NL>>
      [] OTHER ->
            <<"#", " ">> \o Quoted(src) \o <<NL, " ", " ">>
            \o Quoted(dst) \o <<NL>>

\* the most blocks a translation file holds
MaxBlocks == 2

\* the largest batch_size the configurations draw
MaxBatch == 3

\* the most times __call__ is entered
MaxCalls == 2

\* the blocks of the translation files: an entry with the blank line that
\* closes its block, a short one, one whose source holds a percent, a speaker's
\* line, a long one, one with no entry, and an entry whose two lines a blank
\* line parts
Blocks ==
    {Entry("old", <<"a">>, <<"b">>) \o <<NL>>,
     Entry("old", <<"a", "%", "b">>, <<"b">>) \o <<NL>>,
     Entry("say", <<"c">>, <<"%", "b">>) \o <<NL>>,
     Entry("old", <<"a", "{", "p", "}", "b", "{", "w", "}">>, <<"b">>) \o <<NL>>,
     <<"#", " ", "x", NL, NL>>,
     <<"o", "l", "d", " ", QUOTE, "a", QUOTE, NL, NL,
       "n", "e", "w", " ", QUOTE, "b", QUOTE, NL>>}

\* the contents of a translation file: one to MaxBlocks blocks
FileTexts == {Join(bs) : bs \in UNION {[1..k -> Blocks] : k \in 1..MaxBlocks}}

\* the contents of scenario.rpy in the runs of __call__: one block, or two
RunTexts ==
    Blocks
    \cup {Entry("old", <<"a">>, <<"b">>) \o <<NL>>
            \o Entry("old", <<"a", "{", "p", "}", "b", "{", "w", "}">>, <<"b">>),
          <<"#", " ", "x", NL, NL>> \o Entry("say", <<"c">>, <<"%", "b">>)}

\* the content of gui.rpy when there is one
GuiText == Entry("old", <<"c">>, <<"b">>) \o <<NL>>

\* Config.language
Language == <<"k", "o">>

Config(threshold, batch, devmode) ==
    [language |-> Language, batch_size |-> batch,
     linebreak_threshold |-> threshold, dev_mode |-> devmode]

\* the file system and __call__ at rest, for the calls of _rpy and rpy alone
RunIdle ==
    /\ paths = [backup |-> <<>>, script |-> TRUE]
    /\ script = <<>>
    /\ files = <<>>
    /\ rpyc = {}
    /\ archives = <<>>
    /\ dev = <<>>
    /\ remaining = <<>>
    /\ calls = 0
    /\ written = {}
    /\ before = <<>>

\* resize at rest, for the calls of RenpyTranslation
ResizeIdle ==
    /\ bc = <<>>
    /\ resizer_type = ""
    /\ tree = <<>>
    /\ entered = <<>>
    /\ subdirs = <<>>
    /\ outcome = <<>>

(***************************************************************************)
(* RenpyTranslation.characters and RenpyTranslation.__call__                *)
(***************************************************************************)
\* PurePath.suffix of a file name: from its last dot on, unless that dot
\* is the first or the last character
suffix(name) ==
    LET dots == {i \in 1..Len(name) : name[i] = "."}
    IN  IF dots = {} \/ Max(dots) = 1 \/ Max(dots) = Len(name)
        THEN <<>>
        ELSE From(name, Max(dots))

\* PurePath.with_suffix
with_suffix(name, new) == SubSeq(name, 1, Len(name) - Len(suffix(name))) \o new

ZIP == <<".", "z", "i", "p">>

\* an archive written under the base name alone
make_archive_Bare(base_name) == base_name

\* shutil.make_archive(base_name, 'zip', ...) writes base_name + '.zip'
make_archive(base_name) == base_name \o ZIP

\* the body of the property 'characters' raises FileNotFoundError
CharactersRaises == paths.script /\ script = <<>>

\* self.characters: the cached roster, or the one the first access computes
Characters ==
    IF characters # <<>> THEN characters[1]
    ELSE IF ~paths.script THEN {}
    ELSE script[1]

\* unlink that leaves the file where it is
unlink_Kept(S, p) == S

\* rpy.with_suffix('.rpyc').unlink(missing_ok=True), on the set S of the stems
\* that have a compiled sibling
unlink(S, p) == S \ {p}

\* rpy on the file of stem p and content s reads self.characters: an entry of
\* it gets past the first two conditions of _edit
ReadsCharacters(p, s) ==
    LET reader == RpyReader(s, conf.batch_size)
    IN  \E k \in 1..Len(reader) :
            LET ms == iter_tl(reader[k])
            IN  \E i \in 1..Len(ms) :
                    ~NoOp(ms[i]) /\ ~KeepSource(ms[i], p \in PRESERVE_FILES)

\* listings that may name a file twice
Orders_Repeating(S) == [1..Cardinality(S) -> S]

\* the orders in which rglob may list the files
Orders(S) ==
    {o \in [1..Cardinality(S) -> S] : \A i, j \in DOMAIN o : o[i] = o[j] => i = j}

\* __call__, lines 262-269: the backup
Backup ==
    /\ pc = "Backup"
    /\ LET backup == conf.language \o paths.backup
       IN  IF paths.backup # <<>> /\ with_suffix(backup, ZIP) \notin DOMAIN archives
           THEN archives' = [a \in DOMAIN archives \cup {make_archive(backup)} |->
                                IF a = make_archive(backup) THEN files ELSE archives[a]]
           ELSE UNCHANGED archives
    /\ pc' = "Enumerate"
    /\ UNCHANGED <<conf, paths, characters, script, files, rpyc, dev, remaining,
                   calls, written, before, text, path, tl, result, returned>>
    /\ UNCHANGED pending
    /\ UNCHANGED resizeVars

\* the listing without the test of line 272: with no file the loop has no
\* turn and the call goes on to the developer mode
Enumerate_NoCheck ==
    /\ pc = "Enumerate"
    /\ IF DOMAIN files = {}
       THEN pc' = "DevModeWrite" /\ UNCHANGED remaining
       ELSE pc' = "PerFileRewrite" /\ remaining' \in Orders(DOMAIN files)
    /\ UNCHANGED <<conf, paths, characters, script, files, rpyc, archives, dev,
                   calls, written, before, text, path, tl, result, returned>>
    /\ UNCHANGED pending
    /\ UNCHANGED resizeVars

\* __call__, lines 272-273: the files are listed, FileNotFoundError if none
Enumerate ==
    /\ pc = "Enumerate"
    /\ IF DOMAIN files = {}
       THEN pc' = "Error" /\ UNCHANGED remaining
       ELSE pc' = "PerFileRewrite" /\ remaining' \in Orders(DOMAIN files)
    /\ UNCHANGED <<conf, paths, characters, script, files, rpyc, archives, dev,
                   calls, written, before, text, path, tl, result, returned>>
    /\ UNCHANGED pending
    /\ UNCHANGED resizeVars

\* a write that leaves the text doubled
write_text_Doubled(s, t) == {t \o t}

\* what rpy.write_text(t) may leave in a file of content s when it raises:
\* s when the file could not be opened, and nothing or a part of t when the
\* file was opened, which truncates it, and the write failed
write_text(s, t) == {s, <<>>, SubSeq(t, 1, Len(t) \div 2)}

\* __call__, lines 275-281: one turn of the loop.  fault tells what the file
\* system refuses in the turn: nothing ("none"), the read of the file (lines
\* 277-278), write_text (line 279) or the unlink of a sibling that is there
\* (line 280); __call__ catches nothing, the OSError ends the call
LoopTurn(fault) ==
    /\ pc = "PerFileRewrite"
    /\ remaining # <<>>
    /\ \E p \in {Head(remaining)} :
       \E s \in {files[p]} :
       \E reads \in {fault # "read" /\ ReadsCharacters(p, s)} :
           IF fault = "read" \/ (reads /\ characters = <<>> /\ CharactersRaises)
           THEN /\ fault \in {"none", "read"}
                /\ pc' = "Error"
                /\ UNCHANGED <<characters, files, rpyc, remaining, written, text,
                               path, tl, result>>
           ELSE \E roster \in {IF reads THEN Characters ELSE {}} :
                \E t \in {rpy([conf |-> conf, characters |-> roster], p, s)} :
                    /\ characters' = IF reads THEN <<roster>> ELSE characters
                    /\ IF fault = "none"
                       THEN /\ IF s # t
                               THEN /\ files' = [files EXCEPT ![p] = t]
                                    /\ rpyc' = unlink(rpyc, p)
                                    /\ written' = written \cup {p}
                               ELSE UNCHANGED <<files, rpyc, written>>
                            /\ remaining' = Tail(remaining)
                            /\ pc' = IF Tail(remaining) = <<>>
                                     THEN "DevModeWrite" ELSE "PerFileRewrite"
                       ELSE /\ s # t
                            /\ fault = "unlink" => p \in rpyc
                            /\ \E left \in (IF fault = "write"
                                            THEN write_text(s, t) ELSE {t}) :
                                   files' = [files EXCEPT ![p] = left]
                            /\ written' = IF fault = "unlink"
                                          THEN written \cup {p} ELSE written
                            /\ pc' = "Error"
                            /\ UNCHANGED <<rpyc, remaining>>
                    /\ text' = s
                    /\ path' = p
                    /\ tl' = iter_tl(s)
                    /\ result' = t
    /\ UNCHANGED <<conf, paths, script, archives, dev, calls, before, returned>>
    /\ UNCHANGED pending
    /\ UNCHANGED resizeVars

\* a turn of the loop in which the file system refuses nothing
PerFileRewrite == LoopTurn("none")

\* the developer mode step that writes over a file already there
DevModeWrite_Overwrite ==
    /\ pc = "DevModeWrite"
    /\ IF conf.dev_mode
       THEN dev' = <<"DEV_SCRIPT">>
       ELSE UNCHANGED dev
    /\ pc' = "Done"
    /\ UNCHANGED <<conf, paths, characters, script, files, rpyc, archives,
                   remaining, calls, written, before, text, path, tl, result,
                   returned>>
    /\ UNCHANGED pending
    /\ UNCHANGED resizeVars

\* __call__, lines 284-292: the developer mode file
DevModeWrite ==
    /\ pc = "DevModeWrite"
    /\ IF conf.dev_mode /\ dev = <<>>
       THEN dev' = <<"DEV_SCRIPT">>
       ELSE UNCHANGED dev
    /\ pc' = "Done"
    /\ UNCHANGED <<conf, paths, characters, script, files, rpyc, archives,
                   remaining, calls, written, before, text, path, tl, result,
                   returned>>
    /\ UNCHANGED pending
    /\ UNCHANGED resizeVars

\* __call__ is entered once more, on the same object or on a new one with
\* the same configuration
CallAgain ==
    /\ pc = "Done"
    /\ calls < MaxCalls
    /\ calls' = calls + 1
    /\ pc' = "Backup"
    /\ written' = {}
    /\ before' = files
    /\ characters' \in {characters, <<>>}
    /\ UNCHANGED <<conf, paths, script, files, rpyc, archives, dev, remaining,
                   text, path, tl, result, returned>>
    /\ UNCHANGED pending
    /\ UNCHANGED resizeVars

\* the translation files of a game at the start
FileSets ==
    {<<>>}
    \cup {[p \in {"scenario"} |-> t] : t \in RunTexts}
    \cup {[p \in {"gui", "scenario"} |-> IF p = "gui" THEN GuiText ELSE t] :
             t \in RunTexts}

Init ==
    /\ \E devmode \in BOOLEAN : conf = Config(MaxThreshold, 100, devmode)
    /\ \E b \in {<<>>, <<"B">>, <<".", "b">>} : paths = [backup |-> b, script |-> TRUE]
    /\ characters = <<>>
    /\ script \in {<<>>, <<{}>>, <<{<<"c">>}>>}
    /\ files \in FileSets
    /\ rpyc \in {{}, DOMAIN files}
    /\ archives = <<>>
    /\ dev \in {<<>>, <<"user">>}
    /\ pc = "Backup"
    /\ remaining = <<>>
    /\ calls = 1
    /\ written = {}
    /\ before = files
    /\ text = <<>>
    /\ path = ""
    /\ tl = <<>>
    /\ result = <<>>
    /\ returned = <<>>
    /\ pending = <<>>
    /\ ResizeIdle

Next ==
    \/ Backup
    \/ Enumerate
    \/ PerFileRewrite
    \/ DevModeWrite
    \/ CallAgain

Spec == Init /\ [][Next]_vars

\* the runs of __call__ in which a call that was entered goes on: each step
\* of the body is taken when it can be; whether __call__ is entered again is
\* up to the caller.  The weak fairness of PerFileRewrite is written out,
\* []<>~ENABLED <<A>>_vars \/ []<><<A>>_vars, with the condition under which
\* a turn of the loop can be taken, pc = "PerFileRewrite", for ENABLED
SpecLive ==
    /\ Spec
    /\ WF_vars(Backup)
    /\ WF_vars(Enumerate)
    /\ ([]<>(pc # "PerFileRewrite") \/ []<><<PerFileRewrite>>_vars)
    /\ WF_vars(DevModeWrite)

(***************************************************************************)
(* SpecIO: the runs of __call__ in which the file system may refuse an     *)
(* operation of the loop.  __call__ catches nothing: the OSError leaves    *)
(* the loop and the call.                                                  *)
(***************************************************************************)
\* a turn of the loop, with or without a refusal of the file system
PerFileTurn == \E fault \in {"none", "read", "write", "unlink"} : LoopTurn(fault)

NextIO ==
    \/ Backup
    \/ Enumerate
    \/ PerFileTurn
    \/ DevModeWrite
    \/ CallAgain

SpecIO == Init /\ [][NextIO]_vars

(***************************************************************************)
(* SpecBatch: RenpyTranslation.rpy called on one file under several        *)
(* batch sizes.                                                            *)
(***************************************************************************)
InitBatch ==
    /\ conf = Config(MaxThreshold, 100, TRUE)
    /\ characters = <<{<<"c">>}>>
    /\ path \in {"gui", "scenario"}
    /\ text \in FileTexts
    /\ tl = <<>>
    /\ result = <<>>
    /\ returned = <<>>
    /\ pc = "call"
    /\ RunIdle
    /\ pending = <<>>
    /\ ResizeIdle

Call_rpy_file(n) ==
    /\ n \notin DOMAIN returned
    /\ conf' = [conf EXCEPT !.batch_size = n]
    /\ tl' = iter_tl(text)
    /\ result' = rpy([conf |-> conf', characters |-> characters[1]], path, text)
    /\ returned' = [k \in DOMAIN returned \cup {n} |->
                        IF k = n THEN result' ELSE returned[k]]
    /\ pc' = "return"
    /\ UNCHANGED <<characters, text, path>>
    /\ UNCHANGED runVars
    /\ UNCHANGED pending
    /\ UNCHANGED resizeVars

NextBatch == \E n \in 1..MaxBatch : Call_rpy_file(n)

SpecBatch == InitBatch /\ [][NextBatch]_vars

(***************************************************************************)
(* SpecRpy: one call of RenpyTranslation._rpy on a chunk that holds one    *)
(* entry.                                                                  *)
(***************************************************************************)
InitRpy ==
    /\ \E th \in 0..MaxThreshold : conf = Config(th, 100, TRUE)
    /\ \E r \in Rosters : characters = <<r>>
    /\ path \in {"gui", "scenario"}
    /\ \E shape \in Shapes, src \in SrcPool :
           \E dst \in DstFor(src) : text = Entry(shape, src, dst)
    /\ tl = <<>>
    /\ result = <<>>
    /\ returned = <<>>
    /\ pc = "call"
    /\ RunIdle
    /\ pending = <<>>
    /\ ResizeIdle

Call_rpy ==
    /\ pc = "call"
    /\ tl' = iter_tl(text)
    /\ result' = _rpy([conf |-> conf, characters |-> characters[1]], text,
                      path \in PRESERVE_FILES)
    /\ pc' = "return"
    /\ UNCHANGED <<conf, characters, text, path, returned>>
    /\ UNCHANGED runVars
    /\ UNCHANGED pending
    /\ UNCHANGED resizeVars

NextRpy == Call_rpy

SpecRpy == InitRpy /\ [][NextRpy]_vars

(***************************************************************************)
(* Properties of _rpy on a chunk of one entry (SpecRpy).                   *)
(***************************************************************************)
\* the call has returned and the patterns matched one entry on the chunk
OneEntry == pc = "return" /\ Len(tl) = 1

\* the chunk with the string literal after the entry's head replaced by body
\* and all else as it was
Rewritten(body) ==
    SubSeq(text, 1, tl[1].match.start - 1) \o tl[1].head \o Quoted(body)
    \o SubSeq(text, tl[1].match.end + 1, Len(text))

\* the no-op guard passes the entry on: the translated text of the entry does
\* not start with the source, and the pair is not an old:/new: marker
PassesNoOp ==
    /\ ~StartsWith(tl[1].dst, tl[1].src)
    /\ ~(StartsWith(tl[1].src, <<"o", "l", "d", ":">>)
         /\ StartsWith(tl[1].dst, <<"n", "e", "w", ":">>))

InPreservedFile == path \in PRESERVE_FILES

IsPreservedWord == Strip(StripSpace(tl[1].src), {"."}) \in PRESERVE_WORDS

IsCharacter == Strip(tl[1].src, {"[", "]"}) \in characters[1]

IsBracketed ==
    /\ Len(tl[1].src) >= 2
    /\ Head(tl[1].src) = "["
    /\ tl[1].src[Len(tl[1].src)] = "]"

IsShort == Len(tl[1].src) <= conf.linebreak_threshold

Inline == tl[1].src \o <<" ", " ", "|", " ", " ">> \o tl[1].dst

NameMerge == tl[1].src \o <<" ", "(">> \o tl[1].dst \o <<")">>

\* the positions of the percents of s that have no percent next to them
LonePercents(s) ==
    {k \in 1..Len(s) :
        /\ s[k] = "%"
        /\ (k = 1 \/ s[k - 1] # "%")
        /\ (k = Len(s) \/ s[k + 1] # "%")}

\* s with one more percent put in at position k
DoubledAt(s, k) == SubSeq(s, 1, k) \o <<"%">> \o SubSeq(s, k + 1, Len(s))

EndsWith(s, e) == Len(e) <= Len(s) /\ SubSeq(s, Len(s) - Len(e) + 1, Len(s)) = e

\* the string literal that follows the entry's head in the returned text
OutDst ==
    SubSeq(result, tl[1].match.start + Len(tl[1].head) + 1,
           Len(result) - (Len(text) - tl[1].match.end) - 1)

\* s with every '{w}' taken out, then every '{p}' turned into ' / '
RECURSIVE WithoutWait(_)
WithoutWait(s) ==
    IF s = <<>> THEN <<>>
    ELSE IF Len(s) >= 3 /\ SubSeq(s, 1, 3) = <<"{", "w", "}">>
    THEN WithoutWait(SubSeq(s, 4, Len(s)))
    ELSE <<Head(s)>> \o WithoutWait(Tail(s))

RECURSIVE PauseToSlash(_)
PauseToSlash(s) ==
    IF s = <<>> THEN <<>>
    ELSE IF Len(s) >= 3 /\ SubSeq(s, 1, 3) = <<"{", "p", "}">>
    THEN <<" ", "/", " ">> \o PauseToSlash(SubSeq(s, 4, Len(s)))
    ELSE <<Head(s)>> \o PauseToSlash(Tail(s))

Normalized == PauseToSlash(WithoutWait(tl[1].src))

\* C2 (as claimed): a chunk of one entry whose translated text, as the file
\* has it, starts with the source text is returned byte-identical
C2_NoOpGuard ==
    (OneEntry /\ StartsWith(tl[1].match.dst, tl[1].src)) => result = text

\* C3 (as claimed): whatever the rewrite decision, an entry whose translated
\* text holds exactly one percent, with no percent next to it, has that
\* percent doubled in the translated string of the returned text
C3_PercentAnyPolicy ==
    (OneEntry /\ Cardinality(LonePercents(tl[1].match.dst)) = 1
              /\ Cardinality({k \in 1..Len(tl[1].match.dst) :
                                  tl[1].match.dst[k] = "%"}) = 1)
    => \A k \in LonePercents(tl[1].match.dst) :
          Find(OutDst, DoubledAt(tl[1].match.dst, k), 1) # 0

\* the entry is merged: it passes the no-op guard and the preservation guard,
\* is no bracket-wrapped character reference and, when long, its translated
\* text does not start with the source freed of {w} and {p}
IsMerged ==
    /\ PassesNoOp
    /\ ~InPreservedFile
    /\ ~IsPreservedWord
    /\ ~(IsCharacter /\ IsBracketed)
    /\ (IsCharacter \/ IsShort \/ ~StartsWith(tl[1].dst, Normalized))

\* C3 (amended): when the entry is merged (name-merge, inline-merge or
\* newline-merge), the lone percent of its translated text is written doubled:
\* the translated string of the returned text ends with the translated text
\* with '%%' for '%'
C3_PercentWhenMerged ==
    (OneEntry /\ Cardinality(LonePercents(tl[1].match.dst)) = 1
              /\ Cardinality({k \in 1..Len(tl[1].match.dst) :
                                  tl[1].match.dst[k] = "%"}) = 1
              /\ IsMerged)
    => \A k \in LonePercents(tl[1].match.dst) :
          \/ EndsWith(OutDst, DoubledAt(tl[1].match.dst, k))
          \/ EndsWith(OutDst, DoubledAt(tl[1].match.dst, k) \o <<")">>)

C3_Witness ==
    /\ OneEntry
    /\ tl[1].match.dst = <<"%", "b">>
    /\ IsMerged
    /\ ~IsCharacter
    /\ ~IsShort
    /\ EndsWith(OutDst, <<BSLASH, "n", "%", "%", "b">>)

\* C4 (as claimed): the construction of the match leaves the translated text
\* as it was when it holds '%%' and when it holds no '%'
C4_PercentUnchanged ==
    (OneEntry /\ (\/ Find(tl[1].match.dst, <<"%", "%">>, 1) # 0
                  \/ \A k \in 1..Len(tl[1].match.dst) : tl[1].match.dst[k] # "%"))
    => tl[1].dst = tl[1].match.dst

\* C4 (amended): the construction of the match leaves the translated text as
\* it was when every percent of it has a percent next to it, and so when it
\* holds none
C4_NoLonePercentUnchanged ==
    (OneEntry /\ LonePercents(tl[1].match.dst) = {}) => tl[1].dst = tl[1].match.dst

C4_Witness ==
    /\ OneEntry
    /\ tl[1].match.dst = <<"c", "%", "%", "%">>
    /\ tl[1].dst = tl[1].match.dst

\* C5: an entry that passes the no-op guard and the preservation guard and
\* whose source is no character name is rewritten to head + "src  |  dst" when
\* the source is at most linebreak_threshold long, and never when it is longer
C5_ShortMerge ==
    (OneEntry /\ PassesNoOp /\ ~InPreservedFile /\ ~IsPreservedWord /\ ~IsCharacter)
    => /\ IsShort => result = Rewritten(Inline)
       /\ ~IsShort => result # Rewritten(Inline)

C5_Witness ==
    /\ OneEntry /\ PassesNoOp /\ ~InPreservedFile /\ ~IsPreservedWord /\ ~IsCharacter
    /\ Len(tl[1].src) = conf.linebreak_threshold
    /\ Len(tl[1].src) = 3
    /\ result = Rewritten(Inline)
    /\ result # text

\* C6 (as claimed): in a file that is not preserved, an entry whose source,
\* its square brackets stripped, is in the roster and is not wholly
\* bracket-wrapped is rewritten to head + "src (dst)", short or long
C6_CharacterMerge ==
    (OneEntry /\ ~InPreservedFile /\ IsCharacter /\ ~IsBracketed)
    => result = Rewritten(NameMerge)

\* C6 (amended): the same for an entry that passes the no-op guard and whose
\* source is no preserved word
C6_CharacterMergeGuarded ==
    (OneEntry /\ PassesNoOp /\ ~InPreservedFile /\ ~IsPreservedWord
              /\ IsCharacter /\ ~IsBracketed)
    => result = Rewritten(NameMerge)

C6_Witness ==
    /\ OneEntry /\ PassesNoOp /\ ~InPreservedFile /\ ~IsPreservedWord
    /\ IsCharacter /\ ~IsBracketed
    /\ ~IsShort
    /\ result = Rewritten(NameMerge)
    /\ result # text

\* C7 (as claimed): an entry whose source is a character name wholly wrapped
\* in square brackets is rewritten to head + "src"
C7_BracketedCharacter ==
    (OneEntry /\ IsCharacter /\ IsBracketed) => result = Rewritten(tl[1].src)

\* C7 (amended): the same for an entry that passes the no-op guard
C7_BracketedCharacterGuarded ==
    (OneEntry /\ PassesNoOp /\ IsCharacter /\ IsBracketed)
    => result = Rewritten(tl[1].src)

C7_Witness ==
    /\ OneEntry /\ PassesNoOp /\ IsCharacter /\ IsBracketed
    /\ ~InPreservedFile
    /\ result = Rewritten(tl[1].src)
    /\ result # text

\* C8: an entry that reaches the default case (longer than
\* linebreak_threshold, no character name, not preserved, not no-op) is
\* rewritten to head + "normalized-source\ntranslated", with backslash and n,
\* unless the translated text starts with the normalized source; then the
\* chunk is returned as it was
C8_LongMerge ==
    (OneEntry /\ PassesNoOp /\ ~InPreservedFile /\ ~IsPreservedWord
              /\ ~IsCharacter /\ ~IsShort)
    => IF StartsWith(tl[1].dst, Normalized)
       THEN result = text
       ELSE result = Rewritten(Normalized \o <<BSLASH, "n">> \o tl[1].dst)

C8_Witness ==
    /\ OneEntry /\ PassesNoOp /\ ~InPreservedFile /\ ~IsPreservedWord
    /\ ~IsCharacter /\ ~IsShort
    /\ tl[1].src = <<"a", "{", "p", "}", "b", "{", "w", "}">>
    /\ result = Rewritten(<<"a", " ", "/", " ", "b", BSLASH, "n", "%", "%", "b">>)

\* C9 (as claimed): in a preserved file every entry is rewritten to
\* head + "src", whatever its length, its character status and its
\* translated text
C9_PreservedFile ==
    (OneEntry /\ InPreservedFile) => result = Rewritten(tl[1].src)

\* C9 (amended): in a preserved file every entry that passes the no-op guard
\* is rewritten to head + "src", whatever its length and character status
C9_PreservedFileGuarded ==
    (OneEntry /\ InPreservedFile /\ PassesNoOp) => result = Rewritten(tl[1].src)

C9_Witness ==
    /\ OneEntry /\ InPreservedFile /\ PassesNoOp
    /\ IsCharacter /\ ~IsBracketed /\ ~IsShort
    /\ result = Rewritten(tl[1].src)
    /\ result # text

(***************************************************************************)
(* Properties of __call__ (Spec) and of rpy under batching (SpecBatch).    *)
(***************************************************************************)
\* C1 (as claimed): when __call__ runs a second time with nothing changed in
\* between, it writes no translation file, and every file ends as the first
\* run left it
C1_Idempotent == calls >= 2 => (written = {} /\ files = before)

\* the positions at which the strings RpyReader yields on s end in s
ChunkEnds(s, n) ==
    LET reader == RpyReader(s, n)
    IN  {Len(Join(SubSeq(reader, 1, k))) : k \in 1..Len(reader)}

RECURSIVE Sum(_)
Sum(ns) == IF ns = <<>> THEN 0 ELSE Head(ns) + Sum(Tail(ns))

\* how many entries the patterns match on the strings RpyReader yields on s
ChunkMatches(s, n) ==
    LET reader == RpyReader(s, n)
    IN  Sum([k \in 1..Len(reader) |-> Len(iter_tl(reader[k]))])

\* C10 (as claimed): rpy returns the same text under every batch size, and
\* every entry the patterns match on the whole text of the file lies inside
\* one chunk and is matched once
C10_BatchIndependent ==
    /\ \A n, m \in DOMAIN returned : returned[n] = returned[m]
    /\ pc = "return" =>
          /\ \A i \in 1..Len(tl) :
                 \A e \in ChunkEnds(text, conf.batch_size) :
                     ~(tl[i].match.start <= e /\ e < tl[i].match.end)
          /\ ChunkMatches(text, conf.batch_size) = Len(tl)

(***************************************************************************)
(* Properties of RpyReader (SpecBatch).                                    *)
(***************************************************************************)
\* the places, among the lines ls of a file, at which a logical block ends:
\* every blank line, and the last line when lines are left after the last
\* blank one
BlockEnds(ls) ==
    {i \in 1..Len(ls) : StripSpace(ls[i]) = <<>> \/ i = Len(ls)}

\* the logical blocks of the text s: the lines up to and with a blank line,
\* and the lines left at the end of the file, if any
LogicalBlocks(s) ==
    LET ls == Lines(s)
        E  == BlockEnds(ls)
        ends == CHOOSE f \in [1..Cardinality(E) -> E] :
                    \A i, j \in 1..Cardinality(E) : i < j => f[i] < f[j]
    IN  [k \in 1..Cardinality(E) |->
            Join(SubSeq(ls, IF k = 1 THEN 1 ELSE ends[k - 1] + 1, ends[k]))]

\* C11 (as claimed): with N = batch_size, the k-th string RpyReader yields is
\* the concatenation of the logical blocks (k-1)N+1 .. kN of the file, of at
\* least one block and at most N, with fewer than N in the last string
\* alone; every block but the one flushed at the end of the file ends with
\* its blank line, and no block lies in two yielded strings
C11_BatchStructure ==
    pc = "return" =>
        LET n  == conf.batch_size
            bs == LogicalBlocks(text)
            ys == RpyReader(text, n)
            cs == iter_chunk(text)
        IN  /\ Len(ys) * n >= Len(bs)
            /\ (Len(ys) - 1) * n < Len(bs)
            /\ \A k \in 1..Len(ys) :
                   ys[k] = Join(SubSeq(bs, (k - 1) * n + 1, Min({k * n, Len(bs)})))
            /\ \A k \in 1..(Len(cs) - 1) :
                   /\ cs[k] # <<>>
                   /\ StripSpace(cs[k][Len(cs[k])]) = <<>>

(***************************************************************************)
(* Properties of the steps of __call__ (Spec).                             *)
(***************************************************************************)
\* C12: a turn of the loop that completes overwrites the file at hand if and
\* only if the text rpy returned differs from the content of the file, and
\* then the file holds that text; the compiled sibling of the file is deleted
\* when the file is overwritten and is left alone when it is not; no step
\* touches another file or another compiled sibling
C12_WriteIfChanged ==
    [][IF pc = "PerFileRewrite" /\ pc' # "Error"
       THEN LET p == Head(remaining)
            IN  /\ (p \in written') <=> (result' # files[p])
                /\ files'[p] = result'
                /\ \A q \in DOMAIN files \ {p} : files'[q] = files[q]
                /\ DOMAIN files' = DOMAIN files
                /\ rpyc' = IF p \in written' THEN rpyc \ {p} ELSE rpyc
                /\ written' \ {p} = written
       ELSE files' = files /\ rpyc' = rpyc]_vars

\* the loop has overwritten a file and deleted its compiled sibling, while
\* the sibling of another file is still there
C12_Witness ==
    /\ path \in written
    /\ result # text
    /\ files[path] = result
    /\ path \notin rpyc
    /\ rpyc # {}

\* the name of the backup archive: <language><backup>.zip under tl
BackupArchive == conf.language \o paths.backup \o ZIP

\* C13: in a run that starts with a backup name configured and no backup
\* archive (the first run), once the backup step is over the archive exists
\* and holds the content every file had when the run started, and every step
\* that overwrites a translation file or deletes a compiled sibling is taken
\* with that archive in place
C13_BackupFirst ==
    /\ []((calls = 1 /\ paths.backup # <<>> /\ pc # "Backup")
            => (BackupArchive \in DOMAIN archives /\ archives[BackupArchive] = before))
    /\ [][(calls = 1 /\ paths.backup # <<>> /\ (files' # files \/ rpyc' # rpyc))
            => (/\ BackupArchive \in DOMAIN archives
                /\ archives[BackupArchive] = before
                /\ archives' = archives)]_vars

\* the first run has overwritten a file, and the archive holds the file as
\* it was before
C13_Witness ==
    /\ calls = 1
    /\ paths.backup # <<>>
    /\ written # {}
    /\ BackupArchive \in DOMAIN archives
    /\ archives[BackupArchive] = before
    /\ \E p \in written : files[p] # archives[BackupArchive][p]

\* C14 (as claimed): once a run has created the backup archive, a later run
\* leaves the archives as they are
C14_BackupOnce == [][calls >= 2 => archives' = archives]_vars

\* C15: the developer-mode file changes only in the developer-mode step of a
\* run with dev_mode on, only when no file is at the path, and then it
\* receives the snippet; in that step, with dev_mode on and no file at the
\* path, the snippet is written; a file already there, and the path when
\* dev_mode is off, are left as they are
C15_DevModeWrite ==
    [][/\ dev' # dev => (/\ pc = "DevModeWrite"
                         /\ conf.dev_mode
                         /\ dev = <<>>
                         /\ dev' = <<"DEV_SCRIPT">>)
       /\ (pc = "DevModeWrite" /\ conf.dev_mode /\ dev = <<>>)
              => dev' = <<"DEV_SCRIPT">>]_vars

\* a second run has met the file the first run wrote, and left it
C15_Witness ==
    /\ calls = 2
    /\ pc = "Done"
    /\ conf.dev_mode
    /\ dev = <<"DEV_SCRIPT">>

\* C16 (as claimed): a run that fails because the script file of the
\* characters is configured and absent has overwritten no translation file
\* when it fails
C16_ErrorBeforeLoop ==
    (pc = "Error" /\ paths.script /\ script = <<>> /\ DOMAIN files # {})
    => (written = {} /\ files = before)

(***************************************************************************)
(* Properties of the runs that fail in the loop (SpecIO).                  *)
(***************************************************************************)
\* the files the loop has yet to visit, the one at hand first
Range(f) == {f[i] : i \in DOMAIN f}

\* a run that raised stops; the turn that raises leaves the files other than
\* the one at hand, every compiled sibling and the developer-mode file as
\* they are; a compiled sibling is deleted only by a turn that completes, and
\* it is the sibling of the file of that turn
FailingTurn ==
    /\ pc # "Error"
    /\ pc' = "Error" =>
          /\ \A q \in DOMAIN files \ Range(remaining) : files'[q] = files[q]
          /\ rpyc' = rpyc
          /\ dev' = dev
    /\ \A q \in rpyc \ rpyc' : q = Head(remaining) /\ pc' # "Error"
    /\ dev' # dev => pc = "DevModeWrite"

\* C17 (as claimed): when the run raised in the turn of file K, the files
\* K..N, the one at hand and those not visited, hold the content they had
\* when the run started and none of them was written, and the run stopped
\* with the files 1..K-1, the compiled siblings of K..N and the
\* developer-mode file as they were
C17_PartialFailure ==
    /\ [](pc = "Error" =>
            \A p \in Range(remaining) : files[p] = before[p] /\ p \notin written)
    /\ [][FailingTurn]_vars

\* C17 (amended): the same for the files K+1..N; the file K holds its
\* original content when the raise came before the write, and otherwise what
\* a failed write left of it or the whole rewritten text (the raise came from
\* the deletion of its compiled sibling, which is still there)
C17_PartialFailureAfterK ==
    /\ [](pc = "Error" /\ remaining # <<>> =>
            /\ \A p \in Range(Tail(remaining)) :
                   files[p] = before[p] /\ p \notin written
            /\ \/ files[Head(remaining)] = before[Head(remaining)]
               \/ /\ path = Head(remaining)
                  /\ text = before[path]
                  /\ files[path] \in {<<>>, SubSeq(result, 1, Len(result) \div 2)}
               \/ /\ path = Head(remaining)
                  /\ text = before[path]
                  /\ files[path] = result
                  /\ path \in rpyc)
    /\ [][FailingTurn]_vars

\* the run raised at the deletion of the compiled sibling of the second
\* file: the first file holds what the run gave it, the second one its
\* rewritten text, and its sibling is there
C17_Witness ==
    /\ pc = "Error"
    /\ Len(remaining) = 1
    /\ Cardinality(DOMAIN files) = 2
    /\ path = Head(remaining)
    /\ files[path] = result
    /\ files[path] # before[path]
    /\ path \in rpyc
    /\ \E q \in written : q # path /\ files[q] # before[q]

(***************************************************************************)
(* Properties of the course of a run (SpecLive).                           *)
(***************************************************************************)
\* the steps of a run: the backup, then the listing of the files, then one
\* turn of the loop for each file listed, in the order listed, then the
\* developer-mode step; the listing names every translation file once
RunStep ==
    \/ pc = "Backup" /\ pc' = "Enumerate"
    \/ /\ pc = "Enumerate"
       /\ \/ pc' = "Error" /\ DOMAIN files = {}
          \/ /\ pc' = "PerFileRewrite"
             /\ Len(remaining') = Cardinality(DOMAIN files)
             /\ Range(remaining') = DOMAIN files
    \/ /\ pc = "PerFileRewrite"
       /\ \/ pc' = "Error"
          \/ /\ remaining' = Tail(remaining)
             /\ path' = Head(remaining)
             /\ pc' = IF remaining' = <<>> THEN "DevModeWrite" ELSE "PerFileRewrite"
    \/ pc = "DevModeWrite" /\ pc' = "Done"
    \/ pc = "Done" /\ pc' = "Backup" /\ calls' = calls + 1

\* C18: every step of a run is the next step of the course Backup, listing,
\* PerFileRewrite (once for each file listed, one file at a time),
\* DevModeWrite, Done, or the step into an error; a run that has started
\* comes to Done or to an error
C18_LinearRun ==
    /\ [][RunStep]_vars
    /\ [](pc = "PerFileRewrite" => remaining # <<>>)
    /\ (pc = "Backup" ~> (pc = "Done" \/ pc = "Error"))

\* a run over two files has come to Done, with both files visited
C18_Witness ==
    /\ pc = "Done"
    /\ Cardinality(DOMAIN files) = 2
    /\ remaining = <<>>
    /\ written # {}

(***************************************************************************)
(* Properties of the run over an empty directory (Spec).                   *)
(***************************************************************************)
\* C19: with no *.rpy file under tl/<language>, the run ends in the error of
\* the listing, the only step after the backup; no step of it writes a
\* translation file or the developer-mode file
C19_EmptyFileSet ==
    /\ []((DOMAIN files = {} /\ pc \notin {"Backup", "Enumerate"})
            => (pc = "Error" /\ written = {}))
    /\ [][DOMAIN files = {}
            => (files' = files /\ written' = written /\ dev' = dev)]_vars

\* the run over an empty directory has failed, with dev_mode on and no
\* developer-mode file written
C19_Witness ==
    /\ DOMAIN files = {}
    /\ pc = "Error"
    /\ conf.dev_mode
    /\ dev = <<>>

(***************************************************************************)
(* scripts/images/resize.py: resize in batch mode with dst omitted, so     *)
(* that dst is src.  A directory name is a sequence of parts, a prefix     *)
(* being one part; the content of a directory is the set of the kinds of   *)
(* files in it.  ImageMagick is outside the program: whether it writes the *)
(* converted images, and whether they are smaller, is not decided here.    *)
(***************************************************************************)
\* _ImageMagicResizer.IMG_EXTS, the kinds of files that are images: "png"
\* stands for the images to resize, "webp" for the converted ones
IMG_EXTS == {"png", "webp"}

\* the kinds of files a directory may hold at the start: images, other files
Kinds == {"png", "txt"}

\* BatchConfig(batch=True, prefix=prefix)
BatchConfig(prefix) ==
    [batch |-> TRUE, prefix |-> prefix, prefix_original |-> "ORIGINAL",
     prefix_resized |-> "RESIZED", prefix_not_reduced |-> "NotReduced"]

\* f'{prefix}{name}'
Prefixed(prefix, name) == <<prefix>> \o name

\* any(True for _ in resizer.find_images(subdir)), on the content of subdir
find_images(content) == content \cap IMG_EXTS # {}

\* a rename after which the directory is nowhere
rename_Lost(t, a, b) == [n \in DOMAIN t \ {a} |-> t[n]]

\* Path.rename of the directory a to b in the tree t
rename(t, a, b) ==
    [n \in (DOMAIN t \ {a}) \cup {b} |-> IF n = b THEN t[a] ELSE t[n]]

\* Path.rename to b raises OSError: b is a directory that is not empty, or an
\* empty one on a system that replaces no directory (replaces = FALSE)
RenameRaises(t, b, replaces) == b \in DOMAIN t /\ (t[b] # {} \/ ~replaces)

\* d.mkdir(exist_ok=True)
mkdir(t, d) ==
    IF d \in DOMAIN t THEN t ELSE [n \in DOMAIN t \cup {d} |-> IF n = d THEN {} ELSE t[n]]

\* what a call of _resize_dir leaves: the tree, the exception raised ("" for
\* none) and the value returned
Raise(t, e) == [tree |-> t, raised |-> e, is_reduced |-> FALSE]

Return(t, r) == [tree |-> t, raised |-> "", is_reduced |-> r]

\* d.parent / f'{conf.prefix_not_reduced}{d.name}'
NotReducedName(c, d) == Prefixed(c.prefix_not_reduced, d)

\* _resize_dir from d.mkdir on (lines 273-279), with resizer.resize(s, d):
\* ConvertResizer raises RuntimeError when a converted image is missing,
\* MogrifyResizer checks nothing; the sizes of the files of d are compared
\* with those of s, and an empty d is smaller than s
ResizeInto(t, s, d, c, rt, env) ==
    LET made == mkdir(t, d)
    IN  IF rt = "ConvertResizer" /\ ~env.converted
        THEN Raise(made, "RuntimeError")
        ELSE LET out == IF env.converted
                        THEN [made EXCEPT ![d] = @ \cup {"webp"}]
                        ELSE made
                 is_reduced == IF out[d] = {} THEN TRUE ELSE env.reduced
             IN  IF is_reduced
                 THEN Return(out, TRUE)
                 ELSE IF RenameRaises(out, NotReducedName(c, d), env.replaces)
                 THEN Raise(out, "OSError")
                 ELSE Return(rename(out, d, NotReducedName(c, d)), FALSE)

\* _resize_dir with the test for images after the rename and the mkdir
_resize_dir_RenameFirst(t, subdir, c, rt, env) ==
    IF c.prefix = "original"
    THEN LET s == Prefixed(c.prefix_original, subdir)
         IN  IF RenameRaises(t, s, env.replaces)
             THEN Raise(t, "OSError")
             ELSE IF ~find_images(t[subdir])
             THEN Raise(mkdir(rename(t, subdir, s), subdir), "NoImagesError")
             ELSE ResizeInto(rename(t, subdir, s), s, subdir, c, rt, env)
    ELSE IF Head(subdir) = c.prefix_resized
    THEN Raise(t, "ResizedDirectoryError")
    ELSE IF ~find_images(t[subdir])
    THEN Raise(mkdir(t, Prefixed(c.prefix_resized, subdir)), "NoImagesError")
    ELSE ResizeInto(t, subdir, Prefixed(c.prefix_resized, subdir), c, rt, env)

\* _resize_dir(src, dst, subdir, resizer, conf) with src = dst, lines 248-279
_resize_dir(t, subdir, c, rt, env) ==
    IF ~find_images(t[subdir])
    THEN Raise(t, "NoImagesError")
    ELSE IF c.prefix = "original"
    THEN LET s == Prefixed(c.prefix_original, subdir)
         IN  IF RenameRaises(t, s, env.replaces)
             THEN Raise(t, "OSError")
             ELSE ResizeInto(rename(t, subdir, s), s, subdir, c, rt, env)
    ELSE IF Head(subdir) = c.prefix_resized
    THEN Raise(t, "ResizedDirectoryError")
    ELSE ResizeInto(t, subdir, Prefixed(c.prefix_resized, subdir), c, rt, env)

\* the most directories src holds at the start
MaxDirs == 2

\* the names of the directories src may hold at the start: plain ones, and
\* ones earlier calls of resize left
NamePool ==
    {<<"a">>, <<"b">>, <<"ORIGINAL", "a">>, <<"RESIZED", "a">>,
     <<"NotReduced", "a">>, <<"NotReduced", "RESIZED", "a">>}

\* the trees under src at the start
Trees ==
    UNION {[D -> SUBSET Kinds] : D \in {E \in SUBSET NamePool : Cardinality(E) <= MaxDirs}}

\* RenpyTranslation at rest, for the calls of resize
RptlIdle ==
    /\ conf = Config(MaxThreshold, 100, TRUE)
    /\ characters = <<>>
    /\ text = <<>>
    /\ path = ""
    /\ tl = <<>>
    /\ result = <<>>
    /\ returned = <<>>
    /\ pending = <<>>
    /\ RunIdle

InitResize ==
    /\ \E prefix \in {"original", "resized"} : bc = BatchConfig(prefix)
    /\ resizer_type \in {"MogrifyResizer", "ConvertResizer"}
    /\ tree \in Trees
    /\ entered = tree
    /\ subdirs = <<>>
    /\ outcome = <<>>
    /\ pc = "resize"
    /\ RptlIdle

\* the variables of RenpyTranslation, pc apart
rptlVars == <<conf, paths, characters, script, files, rpyc, archives, dev,
              remaining, calls, written, before, text, path, tl, result, returned,
              pending>>

\* resize, lines 282-307: the directories of src are listed
resize ==
    /\ pc = "resize"
    /\ subdirs' \in Orders(DOMAIN tree)
    /\ pc' = "for"
    /\ UNCHANGED <<bc, resizer_type, tree, entered, outcome>>
    /\ UNCHANGED rptlVars

\* what the interpreter, the file system and ImageMagick decide in a turn of
\* the loop: whether a rename replaces an empty directory, whether the
\* converted images are written, whether they are smaller
Envs == [replaces : BOOLEAN, converted : BOOLEAN, reduced : BOOLEAN]

\* resize, lines 309-319: a turn of the loop.  A name listed that is no
\* directory any more (x.is_dir() is tested when the name comes up) is passed
\* over; NoImagesError and ResizedDirectoryError go on to the next directory,
\* OSError and RuntimeError leave the loop
ResizeTurn ==
    /\ pc = "for"
    /\ subdirs # <<>>
    /\ \E subdir \in {Head(subdirs)} :
           IF subdir \notin DOMAIN tree
           THEN /\ subdirs' = Tail(subdirs)
                /\ UNCHANGED <<tree, outcome, pc>>
           ELSE \E env \in Envs :
                \E r \in {_resize_dir(tree, subdir, bc, resizer_type, env)} :
                    /\ tree' = r.tree
                    /\ outcome' =
                          [n \in DOMAIN outcome \cup {subdir} |->
                              IF n # subdir THEN outcome[n]
                              ELSE IF r.raised # "" THEN r.raised
                              ELSE IF r.is_reduced THEN "reduced"
                              ELSE "not reduced"]
                    /\ IF r.raised \in {"OSError", "RuntimeError"}
                       THEN pc' = "Returned" /\ UNCHANGED subdirs
                       ELSE pc' = pc /\ subdirs' = Tail(subdirs)
    /\ UNCHANGED <<bc, resizer_type, entered>>
    /\ UNCHANGED rptlVars

\* resize: the loop is over, the call returns
ResizeReturn ==
    /\ pc = "for"
    /\ subdirs = <<>>
    /\ pc' = "Returned"
    /\ UNCHANGED resizeVars
    /\ UNCHANGED rptlVars

NextResize ==
    \/ resize
    \/ ResizeTurn
    \/ ResizeReturn

SpecResize == InitResize /\ [][NextResize]_vars

(***************************************************************************)
(* Properties of resize in batch mode (SpecResize).                        *)
(***************************************************************************)
\* the directory of the originals and the directory of the results of the
\* directory X of src, by bc.prefix
OriginalsOf(X) ==
    IF bc.prefix = "original" THEN Prefixed(bc.prefix_original, X) ELSE X

ResultsOf(X) ==
    IF bc.prefix = "original" THEN X ELSE Prefixed(bc.prefix_resized, X)

\* C20 (as claimed): when resize has returned, for every directory X that src
\* held with images in it, the directory of the originals and the directory
\* of the results both exist
C20_BatchLayout ==
    pc = "Returned" =>
        \A X \in DOMAIN entered :
            find_images(entered[X])
            => (OriginalsOf(X) \in DOMAIN tree /\ ResultsOf(X) \in DOMAIN tree)

\* C20 (amended): when resize has returned, for every directory X for which
\* _resize_dir returned with results smaller than the originals, and whose
\* directory of originals src did not hold already when resize was entered,
\* the directory of the originals exists and holds the images, and the
\* directory of the results exists
C20_BatchLayoutReduced ==
    pc = "Returned" =>
        \A X \in DOMAIN outcome :
            (/\ outcome[X] = "reduced"
             /\ (OriginalsOf(X) = X \/ OriginalsOf(X) \notin DOMAIN entered))
            => /\ OriginalsOf(X) \in DOMAIN tree
               /\ find_images(tree[OriginalsOf(X)])
               /\ ResultsOf(X) \in DOMAIN tree

\* resize has returned from two directories of images with prefix
\* 'original': the originals are under ORIGINAL a and ORIGINAL b, the
\* converted images under a and b
C20_Witness ==
    /\ pc = "Returned"
    /\ bc.prefix = "original"
    /\ DOMAIN entered = {<<"a">>, <<"b">>}
    /\ \A X \in DOMAIN entered :
           /\ X \in DOMAIN outcome
           /\ outcome[X] = "reduced"
           /\ tree[OriginalsOf(X)] = entered[X]
           /\ tree[ResultsOf(X)] = {"webp"}

(***************************************************************************)
(* Properties of the preserved words (SpecRpy).                            *)
(***************************************************************************)
\* the source, its surrounding whitespace removed and then its trailing
\* periods, is a preserved word
IsPreservedWordTrailing ==
    RStrip(StripSpace(tl[1].src), {"."}) \in PRESERVE_WORDS

\* C21 (as claimed): in a file that is not preserved, an entry that passes
\* the no-op guard is rewritten to head + "src" by the rule of the words if
\* and only if its source, surrounding whitespace removed and then trailing
\* periods removed, is a preserved word, whether or not the source is a
\* character name and whatever its length
C21_PreservedWord ==
    (OneEntry /\ PassesNoOp /\ ~InPreservedFile)
    => /\ IsPreservedWordTrailing => result = Rewritten(tl[1].src)
       /\ (~IsPreservedWordTrailing /\ ~(IsCharacter /\ IsBracketed))
          => result # Rewritten(tl[1].src)

\* C21 (amended): the same with the periods removed from both ends of the
\* source
C21_PreservedWordBothEnds ==
    (OneEntry /\ PassesNoOp /\ ~InPreservedFile)
    => /\ IsPreservedWord => result = Rewritten(tl[1].src)
       /\ (~IsPreservedWord /\ ~(IsCharacter /\ IsBracketed))
          => result # Rewritten(tl[1].src)

\* the source '.No', short and in no roster, is kept alone in scenario.rpy
C21_Witness ==
    /\ OneEntry /\ PassesNoOp /\ ~InPreservedFile
    /\ tl[1].src = <<".", "N", "o">>
    /\ IsShort
    /\ result = Rewritten(tl[1].src)
    /\ result # text

(***************************************************************************)
(* SpecEdit: one call of RenpyTranslation._rpy on a chunk of two entries,  *)
(* a step for every turn of its loop.  result holds the variable 'text'    *)
(* of _rpy, text the chunk the call was given.                             *)
(***************************************************************************)
\* the entries of the chunks: the pair on two lines, a speaker's line, a long
\* source, the pair on one line, and a pair whose source holds the text of
\* the pair before
Entries ==
    {Entry("old", <<"a">>, <<"b">>),
     Entry("say", <<"c">>, <<"%", "b">>),
     Entry("old", <<"a", "{", "p", "}", "b", "{", "w", "}">>, <<"b">>),
     <<"o", "l", "d", " ", QUOTE, "a", QUOTE, " ", "n", "e", "w", " ",
       QUOTE, "b", QUOTE, NL>>,
     <<"o", "l", "d", " ", QUOTE,
       "o", "l", "d", " ", QUOTE, "a", QUOTE, " ", "n", "e", "w", " ",
       QUOTE, "b", QUOTE,
       QUOTE, " ", "n", "e", "w", " ", QUOTE, "c", QUOTE, NL>>}

InitEdit ==
    /\ \E th \in {0, MaxThreshold} : conf = Config(th, 100, TRUE)
    /\ \E r \in {{}, {<<"c">>}} : characters = <<r>>
    /\ path \in {"gui", "scenario"}
    /\ \E e1, e2 \in Entries : text = e1 \o e2
    /\ tl = <<>>
    /\ result = <<>>
    /\ returned = <<>>
    /\ pending = <<>>
    /\ pc = "_rpy"
    /\ RunIdle
    /\ ResizeIdle

\* _rpy, line 248: the generator of the matches is made on the text given
Iter_tl ==
    /\ pc = "_rpy"
    /\ tl' = iter_tl(text)
    /\ pending' = tl'
    /\ result' = text
    /\ pc' = "for"
    /\ UNCHANGED <<conf, characters, text, path, returned>>
    /\ UNCHANGED runVars
    /\ UNCHANGED resizeVars

\* _rpy, lines 248-250: a turn of the loop
EditTurn ==
    /\ pc = "for"
    /\ pending # <<>>
    /\ \E r \in {_edit([conf |-> conf, characters |-> characters[1]], result,
                       Head(pending), path \in PRESERVE_FILES)} :
           result' = IF Truthy(r) THEN r.str ELSE result
    /\ pending' = Tail(pending)
    /\ UNCHANGED <<conf, characters, text, path, tl, returned, pc>>
    /\ UNCHANGED runVars
    /\ UNCHANGED resizeVars

\* _rpy, line 252: return text
Return_rpy ==
    /\ pc = "for"
    /\ pending = <<>>
    /\ pc' = "return"
    /\ UNCHANGED <<conf, characters, text, path, tl, result, returned, pending>>
    /\ UNCHANGED runVars
    /\ UNCHANGED resizeVars

NextEdit ==
    \/ Iter_tl
    \/ EditTurn
    \/ Return_rpy

SpecEdit == InitEdit /\ [][NextEdit]_vars

(***************************************************************************)
(* Properties of the replace of one entry (SpecEdit).                      *)
(***************************************************************************)
\* the places at which sub occurs in s from position i on, left to right,
\* no two overlapping
RECURSIVE Occurrences(_, _, _)
Occurrences(s, sub, i) ==
    LET k == Find(s, sub, i)
    IN  IF k = 0 THEN <<>> ELSE <<k>> \o Occurrences(s, sub, k + Len(sub))

\* a turn of the loop is taken for an entry whose full-match text occurs
\* more than once in the text at hand, and the turn changes the text
ReplacesRecurring ==
    /\ pc = "for"
    /\ pending # <<>>
    /\ pending' = Tail(pending)
    /\ Len(Occurrences(result, Head(pending).full, 1)) >= 2
    /\ result' # result

RECURSIVE ByStart(_)
ByStart(ms) ==
    IF ms = {} THEN <<>>
    ELSE LET m == CHOOSE x \in ms : \A y \in ms : x.match.start <= y.match.start
         IN  <<m>> \o ByStart(ms \ {m})

\* what _rpy is to leave of the text t with the entries ms: the text before
\* the first entry with its head and the opening quote, then, for every
\* entry, the closing quote and the text up to the literal of the next one
Kept(t, ms) ==
    [j \in 1..(Len(ms) + 1) |->
        (IF j = 1 THEN <<>> ELSE <<QUOTE>>)
        \o SubSeq(t, IF j = 1 THEN 1 ELSE ms[j - 1].match.end + 1,
                     IF j > Len(ms) THEN Len(t) ELSE ms[j].match.start - 1)
        \o (IF j > Len(ms) THEN <<>> ELSE ms[j].head \o <<QUOTE>>)]

\* the pieces from the k-th on stand in r in their order from position i on,
\* the last one at the end of r
RECURSIVE Placed(_, _, _, _)
Placed(r, i, pieces, k) ==
    IF k = Len(pieces)
    THEN /\ Len(r) - Len(pieces[k]) + 1 >= i
         /\ LitAt(r, Len(r) - Len(pieces[k]) + 1, pieces[k])
    ELSE \E j \in i..Len(r) :
             /\ LitAt(r, j, pieces[k])
             /\ Placed(r, j + Len(pieces[k]), pieces, k + 1)

\* C23 (as claimed): _rpy changes only the translated string literals of the
\* matched entries: the text outside the entries and the head of every
\* entry stand in the text returned as in the chunk, in the same order,
\* with only the literals between them changed
C23_PassThrough ==
    pc = "return" =>
        IF tl = <<>>
        THEN result = text
        ELSE LET pieces == Kept(text, ByStart({tl[k] : k \in 1..Len(tl)}))
             IN  /\ LitAt(result, 1, pieces[1])
                 /\ Placed(result, 1 + Len(pieces[1]), pieces, 2)

(***************************************************************************)
(* Properties of the lines of the text rpy returns (SpecBatch).            *)
(***************************************************************************)
\* how many newlines s holds
Newlines(s) == Cardinality({k \in 1..Len(s) : s[k] = NL})

\* the places of the blank lines among the lines of s
BlankLines(s) == {i \in 1..Len(Lines(s)) : StripSpace(Lines(s)[i]) = <<>>}

\* C24: the text rpy returns for a file holds as many newlines as the file,
\* has as many lines, and has its blank lines at the same places
C24_NoRawNewline ==
    pc = "return" =>
        /\ Newlines(result) = Newlines(text)
        /\ Len(Lines(result)) = Len(Lines(text))
        /\ BlankLines(result) = BlankLines(text)

\* rpy has merged, with the escape, the long entry of the second block of a
\* file of two blocks
C24_Witness ==
    /\ pc = "return"
    /\ path = "scenario"
    /\ Len(tl) = 2
    /\ BlankLines(text) = {3, 6}
    /\ result # text
    /\ Find(result, <<"a", " ", "/", " ", "b", BSLASH, "n", "b">>, 1) # 0

(***************************************************************************)
(* Properties of the reader in the runs of __call__ (Spec).                *)
(***************************************************************************)
\* C25: for every batch size from 1 on, the strings RpyReader yields on a
\* file, joined in their order, are the text of the file; and a turn of the
\* loop on a file in which no pattern matches has rpy return the content of
\* the file, writes no file and deletes no compiled sibling
C25_ReaderRoundTrip ==
    /\ [](\A n \in (1..MaxBatch) \cup {conf.batch_size} :
              Join(RpyReader(text, n)) = text)
    /\ [][(pc = "PerFileRewrite" /\ pc' # "Error" /\ tl' = <<>>)
            => /\ text' = files[Head(remaining)]
               /\ result' = text'
               /\ files' = files
               /\ rpyc' = rpyc
               /\ written' = written]_vars

\* the loop has passed over a file of a comment and a blank line, which has
\* its compiled sibling still, and the run has ended
C25_Witness ==
    /\ pc = "Done"
    /\ path = "scenario"
    /\ text = <<"#", " ", "x", NL, NL>>
    /\ tl = <<>>
    /\ result = text
    /\ files[path] = text
    /\ path \notin written
    /\ path \in rpyc

(***************************************************************************)
(* Properties of the errors of resize in batch mode (SpecResize).          *)
(***************************************************************************)
\* the loop of resize takes the directory at the head of the list
TakesDirectory ==
    /\ pc = "for"
    /\ subdirs # <<>>
    /\ Head(subdirs) \in DOMAIN tree

\* the turn leaves the tree as it is and the loop goes on with the next
\* directory
SkipsDirectory ==
    /\ tree' = tree
    /\ pc' = "for"
    /\ subdirs' = Tail(subdirs)

\* C26: a directory with no images is skipped with the warning of
\* NoImagesError, nothing renamed and nothing created, and the loop goes on;
\* with prefix 'resized' a directory of images that carries the resized
\* prefix is skipped by ResizedDirectoryError in the same way; an OSError or
\* a RuntimeError ends the loop, and no directory listed after the failing
\* one is ever taken
C26_ErrorPolicy ==
    /\ [][TakesDirectory =>
            LET d == Head(subdirs)
            IN  /\ d \in DOMAIN outcome'
                /\ ~find_images(tree[d])
                   => (outcome'[d] = "NoImagesError" /\ SkipsDirectory)
                /\ (find_images(tree[d]) /\ bc.prefix = "resized"
                                         /\ Head(d) = bc.prefix_resized)
                   => (outcome'[d] = "ResizedDirectoryError" /\ SkipsDirectory)
                /\ outcome'[d] \in {"OSError", "RuntimeError"}
                   => (pc' = "Returned" /\ subdirs' = subdirs)
                /\ outcome'[d] \in {"reduced", "not reduced"}
                   => (pc' = "for" /\ subdirs' = Tail(subdirs))]_vars
    /\ []((pc = "Returned" /\ subdirs # <<>>)
            => /\ Head(subdirs) \in DOMAIN outcome
               /\ outcome[Head(subdirs)] \in {"OSError", "RuntimeError"}
               /\ \A k \in 2..Len(subdirs) : subdirs[k] \notin DOMAIN outcome)
    /\ [][pc = "Returned" => tree' = tree]_vars

\* with prefix 'resized', resize has passed over a directory with no images
\* and a directory of an earlier run, and has changed nothing
C26_Witness ==
    /\ pc = "Returned"
    /\ bc.prefix = "resized"
    /\ subdirs = <<>>
    /\ DOMAIN outcome = {<<"a">>, <<"RESIZED", "a">>}
    /\ outcome[<<"a">>] = "NoImagesError"
    /\ outcome[<<"RESIZED", "a">>] = "ResizedDirectoryError"
    /\ tree = entered

\* the loop has ended on the OSError of the first directory listed, and the
\* one listed after it, with images, was never taken
C26_WitnessStop ==
    /\ pc = "Returned"
    /\ Len(subdirs) = 2
    /\ outcome[subdirs[1]] = "OSError"
    /\ subdirs[2] \notin DOMAIN outcome
    /\ find_images(tree[subdirs[2]])

====
